---- MODULE Spec2Model ----
(***************************************************************************)
(* merror: the thread-local multimap of merror/internal/tls_map.h and the  *)
(* MTRY / MVERIFY evaluation protocol of merror/macros.h built on it.      *)
(*                                                                         *)
(* Every thread has its own list head (static thread_local Node* head_);   *)
(* the n-th node a thread allocates with new Node has the address <<t, n>>. *)
(***************************************************************************)
EXTENDS Integers, Sequences, FiniteSets, TLC

\* Bounds of the exploration.
MaxNodes == 3
MaxDepth == 2

\* Program constants.
nullptr == 0
kFree == -1

Threads == {"t1", "t2"}
Keys == {0, 1}
Types == {"A", "B"}

VARIABLES
  head,       \* head[t]: the thread's head_ (a node address or nullptr)
  nodes,      \* nodes[t][n] = [key, next, val]: the n-th node allocated by thread t
  order,      \* history: order[t] = the values of thread t as the documented
              \* map<int, stack<Any>> holds them, oldest insertion first
  stack,      \* stack[t]: the MTRY / MVERIFY evaluations in progress on the thread
  unwinding,  \* unwinding[t]: an exception is propagating on the thread
  ret,        \* the last step taken and what it returned
  dom,        \* dom[s]: the error domain held by the constexpr variable s
  hist,       \* history: hist[s] = the annotation patches applied to dom[s],
              \* in the order of their application
  bld,        \* <<>>, or the error builder of the macro under evaluation and
              \* the patches applied to it in the scope of the macro
  mutex,      \* the thread that holds FilterMap()->first, or "none"
  filters,    \* filters[l]: i_ of the FirstN::Filter that FilterMap()->second
              \* holds for the location l, or NoFilter when it holds none
  calls,      \* calls[t]: the call of ShouldLog in progress on thread t
  log         \* history: log[l] = the records of location l that went through
              \* Filter::Test, in the order of their fetch_add

vars == <<head, nodes, order, stack, unwinding, ret, dom, hist, bld,
         mutex, filters, calls, log>>

\* The state of the stash map and of the MTRY / MVERIFY evaluations.
mapvars == <<head, nodes, order, stack, unwinding>>

\* The state of the error domains and of the error builder.
annvars == <<dom, hist, bld>>

\* The state of the log filters.
logvars == <<mutex, filters, calls, log>>

\* The content of a node's value_ storage that holds no constructed object.
NoVal == [ty |-> "none", id |-> 0, th |-> "none"]

NoRet == [op |-> "none", t |-> "none"]

(***************************************************************************)
(* tls_map.h: class Node                                                   *)
(***************************************************************************)

\* The node a link points to; link 0 is &head_, link n is &n->next_.
Deref(h, ns, link) == IF link = 0 THEN h ELSE ns[link].next

RECURSIVE FindFree(_, _, _)
\* The scan of Node::Put: the first link whose target is null or a free node.
FindFree(h, ns, link) ==
  LET tgt == Deref(h, ns, link) IN
  IF tgt = nullptr THEN link
  ELSE IF ns[tgt].key = kFree THEN link
  ELSE FindFree(h, ns, tgt)

\* A scan that relinks the free node it found at the head without taking it
\* out of its place in the list.
NodePutNoUnlink(h, ns, key) ==
  LET link == FindFree(h, ns, 0)
      tgt == Deref(h, ns, link)
  IN IF tgt = nullptr
     THEN LET res == Len(ns) + 1 IN
          [head |-> res,
           nodes |-> Append(ns, [key |-> key, next |-> h, val |-> NoVal]),
           res |-> res]
     ELSE [head |-> tgt,
           nodes |-> [ns EXCEPT ![tgt].key = key, ![tgt].next = h],
           res |-> tgt]

\* Node::Put without the head special case: the for loop and the relinking
\* of the chosen node at the head of the list.
NodePutScan(h, ns, key) ==
  LET link == FindFree(h, ns, 0)
      tgt == Deref(h, ns, link)
  IN IF tgt = nullptr
     THEN LET res == Len(ns) + 1 IN
          [head |-> res,
           nodes |-> Append(ns, [key |-> key, next |-> h, val |-> NoVal]),
           res |-> res]
     ELSE LET h1 == IF link = 0 THEN ns[tgt].next ELSE h
              ns1 == IF link = 0 THEN ns
                     ELSE [ns EXCEPT ![link].next = ns[tgt].next]
          IN [head |-> tgt,
              nodes |-> [ns1 EXCEPT ![tgt].key = key, ![tgt].next = h1],
              res |-> tgt]

\* A Put that looks no further than the head: it takes the head node whether
\* or not it is free.
NodePutHeadOnly(h, ns, key) ==
  IF h # nullptr
  THEN [head |-> h, nodes |-> [ns EXCEPT ![h].key = key], res |-> h]
  ELSE NodePutScan(h, ns, key)

\* A Put that never reuses a node found by the scan.
NodePutAlwaysNew(h, ns, key) ==
  IF h # nullptr /\ ns[h].key = kFree
  THEN [head |-> h, nodes |-> [ns EXCEPT ![h].key = key], res |-> h]
  ELSE [head |-> Len(ns) + 1,
        nodes |-> Append(ns, [key |-> key, next |-> h, val |-> NoVal]),
        res |-> Len(ns) + 1]

\* A Put that reuses a scanned node in place, without moving it to the head.
NodePutInPlace(h, ns, key) ==
  LET link == FindFree(h, ns, 0)
      tgt == Deref(h, ns, link)
  IN IF tgt = nullptr
     THEN NodePutScan(h, ns, key)
     ELSE [head |-> h, nodes |-> [ns EXCEPT ![tgt].key = key], res |-> tgt]

\* Node::Put: the new head, the new heap and the returned node.
NodePut(h, ns, key) ==
  IF h # nullptr /\ ns[h].key = kFree
  THEN [head |-> h, nodes |-> [ns EXCEPT ![h].key = key], res |-> h]
  ELSE NodePutScan(h, ns, key)

RECURSIVE NodeGetFrom(_, _, _)
\* The while loop of Node::Get from node p; nullptr when the assertion
\* p != nullptr would fail.
NodeGetFrom(ns, p, key) ==
  IF p = nullptr THEN nullptr
  ELSE IF ns[p].key = key THEN p
  ELSE NodeGetFrom(ns, ns[p].next, key)

RECURSIVE NodeGetLast(_, _, _)
\* A lookup that keeps scanning and returns the last match of the list.
NodeGetLast(ns, p, key) ==
  IF p = nullptr THEN nullptr
  ELSE LET rest == NodeGetLast(ns, ns[p].next, key) IN
       IF rest # nullptr THEN rest
       ELSE IF ns[p].key = key THEN p ELSE nullptr

\* A lookup that returns the oldest node with the key.
NodeGetOldest(h, ns, key) == NodeGetLast(ns, h, key)

\* A lookup that takes the head node without comparing keys.
NodeGetHead(h, ns, key) == h

\* Node::Get
NodeGet(h, ns, key) == NodeGetFrom(ns, h, key)

RECURSIVE Chain(_, _)
\* The nodes visited by for (Node* p = head_; p; p = p->next_), in order.
Chain(ns, p) == IF p = nullptr THEN <<>> ELSE <<p>> \o Chain(ns, ns[p].next)

SeqRange(s) == {s[i] : i \in 1..Len(s)}

\* Node::Size
Size(h, ns) == Cardinality({i \in 1..Len(Chain(ns, h)) : ns[Chain(ns, h)[i]].key >= 0})

\* Node::Capacity
Capacity(h, ns) == Len(Chain(ns, h))

\* A Release that forgets to mark the node free.
ReleaseNoop(ns, n) == ns

\* Node::Release
Release(ns, n) == [ns EXCEPT ![n].key = kFree]

(***************************************************************************)
(* tls_map.h: the free functions Put, Get and Remove                       *)
(***************************************************************************)

\* Put<T>(key, args...): Node::Put, then the value is constructed in place.
Put(h, ns, key, v) ==
  LET r == NodePut(h, ns, key) IN
  [head |-> r.head, nodes |-> [r.nodes EXCEPT ![r.res].val = v], res |-> r.res]

\* Get<T>(key)
Get(h, ns, key) == NodeGet(h, ns, key)

\* A Remove that takes the oldest value with the key.
RemoveOldest(h, ns, key) ==
  LET n == NodeGetLast(ns, h, key) IN
  [ns EXCEPT ![n].val = [ty |-> "none", id |-> 0, th |-> "none"], ![n].key = kFree]

\* Remove<T>(key): the value of the node found by Node::Get is destroyed and
\* the node released.
Remove(h, ns, key) ==
  LET n == NodeGet(h, ns, key) IN
  Release([ns EXCEPT ![n].val = NoVal], n)

\* The live nodes of a thread's map.
Live(h, ns) == {n \in SeqRange(Chain(ns, h)) : ns[n].key >= 0}

\* Requires: there is a value associated with the key in the thread's map.
HasKey(h, ns, key) == \E n \in Live(h, ns) : ns[n].key = key

RECURSIVE SumLen(_, _)
\* The sum of the lengths of the sequences f[x], x in S.
SumLen(f, S) ==
  IF S = {} THEN 0
  ELSE LET x == CHOOSE y \in S : TRUE IN Len(f[x]) + SumLen(f, S \ {x})

\* Put can proceed: a free node exists in the thread's list or the heap, which
\* holds at most max nodes over all threads, has room.
CanPutWithin(t, max) ==
  \/ \E n \in SeqRange(Chain(nodes[t], head[t])) : nodes[t][n].key = kFree
  \/ SumLen(nodes, Threads) < max

CanPut(t) == CanPutWithin(t, MaxNodes)

(***************************************************************************)
(* The documented meaning of the map ("a fairly close model would be       *)
(* thread_local std::map<int, std::stack<Any>>"), kept as a history next   *)
(* to the list: an entry is the pointer Put returned and the key it was    *)
(* put with; Remove(key) drops the entry put last with that key.           *)
(***************************************************************************)

\* The position in ord of the entry put last with the key; 0 if there is none.
LastWith(ord, key) ==
  LET I == {i \in 1..Len(ord) : ord[i].key = key} IN
  IF I = {} THEN 0 ELSE CHOOSE i \in I : \A j \in I : j <= i

HistPut(ord, n, key) == Append(ord, [node |-> n, key |-> key])

HistRemove(ord, key) ==
  LET i == LastWith(ord, key) IN
  IF i = 0 THEN ord ELSE SubSeq(ord, 1, i - 1) \o SubSeq(ord, i + 1, Len(ord))

\* The pointer the documented map gives for the key.
HistGet(ord, key) ==
  IF LastWith(ord, key) = 0 THEN nullptr ELSE ord[LastWith(ord, key)].node

(***************************************************************************)
(* A client calling the map directly, as tls_map_test.cc does.             *)
(***************************************************************************)

\* A Put on a head_ that is one static variable shared by all threads.
MapPutShared(t, key, ty) ==
  LET s == CHOOSE x \in Threads : TRUE IN
  /\ CanPut(s)
  /\ LET r == Put(head[s], nodes[s], key, [ty |-> ty, id |-> 0, th |-> t]) IN
     /\ head' = [head EXCEPT ![s] = r.head]
     /\ nodes' = [nodes EXCEPT ![s] = r.nodes]
     /\ order' = [order EXCEPT ![t] = HistPut(@, r.res, key)]
     /\ ret' = [op |-> "Put", t |-> t, key |-> key, node |-> r.res,
                 fresh |-> r.res > Len(nodes[s])]
  /\ UNCHANGED <<stack, unwinding>>
  /\ UNCHANGED annvars
  /\ UNCHANGED logvars

\* A client calls Put<T>(key, args...) on thread t.
MapPut(t, key, ty) ==
  /\ CanPut(t)
  /\ LET r == Put(head[t], nodes[t], key, [ty |-> ty, id |-> 0, th |-> t]) IN
     /\ head' = [head EXCEPT ![t] = r.head]
     /\ nodes' = [nodes EXCEPT ![t] = r.nodes]
     /\ order' = [order EXCEPT ![t] = HistPut(@, r.res, key)]
     /\ ret' = [op |-> "Put", t |-> t, key |-> key, node |-> r.res,
                 fresh |-> r.res > Len(nodes[t])]
  /\ UNCHANGED <<stack, unwinding>>
  /\ UNCHANGED annvars
  /\ UNCHANGED logvars

\* Requires: there is a value associated with the key in the thread's map,
\* and its type is T.
HasKeyOfType(h, ns, key, ty) ==
  \E n \in Live(h, ns) : ns[n].key = key /\ ns[n].val.ty = ty

\* A client calls Get<T>(key) on thread t; the pointer returned is used as a
\* T*, whatever was constructed in the node.
MapGet(t, key, ty) ==
  /\ HasKeyOfType(head[t], nodes[t], key, ty)
  /\ ret' = [op |-> "Get", t |-> t, key |-> key, ty |-> ty,
             node |-> Get(head[t], nodes[t], key)]
  /\ UNCHANGED <<head, nodes, order, stack, unwinding>>
  /\ UNCHANGED annvars
  /\ UNCHANGED logvars

\* A client calls Remove<T>(key) on thread t.
MapRemove(t, key, ty) ==
  /\ HasKeyOfType(head[t], nodes[t], key, ty)
  /\ nodes' = [nodes EXCEPT ![t] = Remove(head[t], nodes[t], key)]
  /\ order' = [order EXCEPT ![t] = HistRemove(@, key)]
  /\ ret' = [op |-> "Remove", t |-> t, key |-> key, ty |-> ty,
             node |-> NodeGet(head[t], nodes[t], key)]
  /\ UNCHANGED <<head, stack, unwinding>>
  /\ UNCHANGED annvars
  /\ UNCHANGED logvars

(***************************************************************************)
(* macros.h: one evaluation of MTRY or MVERIFY is a frame of the thread's  *)
(* stack.  A try frame is the MTryState temporary of the expansion; a      *)
(* verify frame is the Verifier call with its acceptor.                    *)
(*   pc of a try frame:    constructed -> self -> value          (success) *)
(*                         constructed -> stashed -> got -> culprit        *)
(*                                     -> built                  (failure) *)
(*   pc of a verify frame: vconstructed -> vok                   (success) *)
(*                         vconstructed -> verr -> vfail -> built (failure)*)
(***************************************************************************)

\* The Stash type of a call site: MTryState<Key, Domain, Expr>::Stash.
StashType(key) == IF key = 0 THEN "A" ELSE "B"

Top(t) == stack[t][Len(stack[t])]

SetTop(t, f) == [stack EXCEPT ![t][Len(stack[t])] = f]

\* Positions at which code supplied by the user runs inside an evaluation: the
\* rest of the full expression after GetValue(), and the construction, patching
\* and finalization of the error builder.
NestingPcs == {"value", "culprit", "vfail"}

NoCulprit == [id |-> 0, th |-> "none"]

NewFrame(t, kind, key, err, same) ==
  [kind |-> kind, key |-> key, err |-> err,
   depth |-> IF stack[t] = <<>> THEN 1
             ELSE IF same THEN Top(t).depth ELSE Top(t).depth + 1,
   pc |-> IF kind = "try" THEN "constructed" ELSE "vconstructed",
   stash |-> nullptr, got |-> nullptr, culprit |-> NoCulprit,
   nIsError |-> 0, nGetCulprit |-> 0, nGetValue |-> 0, nStash |-> 0,
   size0 |-> Size(head[t], nodes[t])]

\* A new evaluation can start where code of the user runs; at most MaxDepth
\* evaluations are in progress over all threads.
CanBegin(t) ==
  /\ ~unwinding[t]
  /\ SumLen(stack, Threads) < MaxDepth
  /\ stack[t] # <<>> => Top(t).pc \in NestingPcs

\* MakeMTryState<KEY>(DOMAIN, EXPR): the MTryState constructor calls
\* domain.Try(expr); stash_ is null.  `same` tells whether the expansion is in
\* the function of the evaluation below it or in a function called from it.
TryBegin(t, key, err, same) ==
  /\ CanBegin(t)
  /\ stack[t] = <<>> => ~same
  /\ stack' = [stack EXCEPT ![t] = Append(@, NewFrame(t, "try", key, err, same))]
  /\ ret' = NoRet
  /\ UNCHANGED <<head, nodes, order, unwinding>>
  /\ UNCHANGED annvars
  /\ UNCHANGED logvars

\* An expansion whose left operand of ?: is evaluated a second time when it
\* is non-null (x ? x : y in place of x ?: y).
GetSelfOrNullTwice(t) ==
  /\ ~unwinding[t]
  /\ stack[t] # <<>>
  /\ Top(t).kind = "try"
  /\ Top(t).pc = "constructed"
  /\ LET f == Top(t) IN
     IF f.err
     THEN /\ CanPutWithin(t, MaxDepth)
          /\ LET r == Put(head[t], nodes[t], f.key,
                          [ty |-> StashType(f.key), id |-> Len(stack[t]), th |-> t])
             IN /\ head' = [head EXCEPT ![t] = r.head]
                /\ nodes' = [nodes EXCEPT ![t] = r.nodes]
                /\ order' = [order EXCEPT ![t] = HistPut(@, r.res, f.key)]
                /\ stack' = SetTop(t, [f EXCEPT !.pc = "stashed", !.stash = r.res,
                                                !.nIsError = @ + 1, !.nStash = @ + 1])
     ELSE /\ stack' = SetTop(t, [f EXCEPT !.pc = "self", !.nIsError = @ + 2])
          /\ UNCHANGED <<head, nodes, order>>
  /\ ret' = NoRet
  /\ UNCHANGED unwinding
  /\ UNCHANGED annvars
  /\ UNCHANGED logvars

\* A GetSelfOrNull that stashes the domain and the acceptor before looking at
\* IsError().
GetSelfOrNullEager(t) ==
  /\ ~unwinding[t]
  /\ stack[t] # <<>>
  /\ Top(t).kind = "try"
  /\ Top(t).pc = "constructed"
  /\ CanPutWithin(t, MaxDepth)
  /\ LET f == Top(t)
         r == Put(head[t], nodes[t], f.key,
                  [ty |-> StashType(f.key), id |-> Len(stack[t]), th |-> t])
     IN /\ head' = [head EXCEPT ![t] = r.head]
        /\ nodes' = [nodes EXCEPT ![t] = r.nodes]
        /\ order' = [order EXCEPT ![t] = HistPut(@, r.res, f.key)]
        /\ stack' = SetTop(t, [f EXCEPT !.pc = IF f.err THEN "stashed" ELSE "self",
                                        !.stash = r.res,
                                        !.nIsError = @ + 1, !.nStash = @ + 1])
  /\ ret' = NoRet
  /\ UNCHANGED unwinding
  /\ UNCHANGED annvars
  /\ UNCHANGED logvars

\* A GetSelfOrNull that returns this whether or not the acceptor reports an
\* error, so that GetValue() is called on it.
GetSelfOrNullAlwaysSelf(t) ==
  /\ ~unwinding[t]
  /\ stack[t] # <<>>
  /\ Top(t).kind = "try"
  /\ Top(t).pc = "constructed"
  /\ stack' = SetTop(t, [Top(t) EXCEPT !.pc = "self", !.nIsError = @ + 1])
  /\ ret' = NoRet
  /\ UNCHANGED <<head, nodes, order, unwinding>>
  /\ UNCHANGED annvars
  /\ UNCHANGED logvars

\* MTryState::GetSelfOrNull: IsError() is called; on an error the domain and
\* the acceptor are moved into tls_map::Put<Stash>(Key, ...).
GetSelfOrNull(t) ==
  /\ ~unwinding[t]
  /\ stack[t] # <<>>
  /\ Top(t).kind = "try"
  /\ Top(t).pc = "constructed"
  /\ LET f == Top(t) IN
     IF f.err
     THEN /\ CanPutWithin(t, MaxDepth)
          /\ LET r == Put(head[t], nodes[t], f.key,
                          [ty |-> StashType(f.key), id |-> Len(stack[t]), th |-> t])
             IN /\ head' = [head EXCEPT ![t] = r.head]
                /\ nodes' = [nodes EXCEPT ![t] = r.nodes]
                /\ order' = [order EXCEPT ![t] = HistPut(@, r.res, f.key)]
                /\ stack' = SetTop(t, [f EXCEPT !.pc = "stashed", !.stash = r.res,
                                                !.nIsError = @ + 1, !.nStash = @ + 1])
     ELSE /\ stack' = SetTop(t, [f EXCEPT !.pc = "self", !.nIsError = @ + 1])
          /\ UNCHANGED <<head, nodes, order>>
  /\ ret' = NoRet
  /\ UNCHANGED unwinding
  /\ UNCHANGED annvars
  /\ UNCHANGED logvars

\* MTryState::GetValue, called on the pointer GetSelfOrNull returned.
GetValue(t) ==
  /\ ~unwinding[t]
  /\ stack[t] # <<>>
  /\ Top(t).pc = "self"
  /\ stack' = SetTop(t, [Top(t) EXCEPT !.pc = "value", !.nGetValue = @ + 1])
  /\ ret' = NoRet
  /\ UNCHANGED <<head, nodes, order, unwinding>>
  /\ UNCHANGED annvars
  /\ UNCHANGED logvars

\* MERROR_INTERNAL_MTRY_IMPL, right operand of ?: : _gtry_stash_ = Get<Stash>(KEY).
StashGet(t) ==
  /\ ~unwinding[t]
  /\ stack[t] # <<>>
  /\ Top(t).pc = "stashed"
  /\ stack' = SetTop(t, [Top(t) EXCEPT !.pc = "got",
                                       !.got = Get(head[t], nodes[t], Top(t).key),
                                       !.nStash = @ + 1])
  /\ ret' = NoRet
  /\ UNCHANGED <<head, nodes, order, unwinding>>
  /\ UNCHANGED annvars
  /\ UNCHANGED logvars

\* _gtry_stash_->GetCulprit(): the culprit is taken from the acceptor held by
\* the entry that Get returned.
GetCulprit(t) ==
  /\ ~unwinding[t]
  /\ stack[t] # <<>>
  /\ Top(t).pc = "got"
  /\ Top(t).got # nullptr
  /\ stack' = SetTop(t, [Top(t) EXCEPT !.pc = "culprit",
                                       !.culprit = [id |-> nodes[t][Top(t).got].val.id,
                                                    th |-> nodes[t][Top(t).got].val.th],
                                       !.nGetCulprit = @ + 1])
  /\ ret' = NoRet
  /\ UNCHANGED <<head, nodes, order, unwinding>>
  /\ UNCHANGED annvars
  /\ UNCHANGED logvars

\* MVERIFY: Verifier::operator() starts with domain.Verify(expr).
VerifyBegin(t, err, same) ==
  /\ CanBegin(t)
  /\ stack[t] = <<>> => ~same
  /\ stack' = [stack EXCEPT ![t] = Append(@, NewFrame(t, "verify", kFree, err, same))]
  /\ ret' = NoRet
  /\ UNCHANGED <<head, nodes, order, unwinding>>
  /\ UNCHANGED annvars
  /\ UNCHANGED logvars

\* A Verifier that takes the culprit whatever IsError() has returned.
VerifierIsErrorUnchecked(t) ==
  /\ ~unwinding[t]
  /\ stack[t] # <<>>
  /\ Top(t).pc = "vconstructed"
  /\ stack' = SetTop(t, [Top(t) EXCEPT !.pc = "verr", !.nIsError = @ + 1])
  /\ ret' = NoRet
  /\ UNCHANGED <<head, nodes, order, unwinding>>
  /\ UNCHANGED annvars
  /\ UNCHANGED logvars

\* Verifier::operator(): if (acceptor.IsError())
VerifierIsError(t) ==
  /\ ~unwinding[t]
  /\ stack[t] # <<>>
  /\ Top(t).pc = "vconstructed"
  /\ stack' = SetTop(t, [Top(t) EXCEPT !.pc = IF Top(t).err THEN "verr" ELSE "vok",
                                       !.nIsError = @ + 1])
  /\ ret' = NoRet
  /\ UNCHANGED <<head, nodes, order, unwinding>>
  /\ UNCHANGED annvars
  /\ UNCHANGED logvars

\* Verifier::operator(): res.culprit.emplace(acceptor.GetCulprit())
VerifierGetCulprit(t) ==
  /\ ~unwinding[t]
  /\ stack[t] # <<>>
  /\ Top(t).pc = "verr"
  /\ stack' = SetTop(t, [Top(t) EXCEPT !.pc = "vfail",
                                       !.culprit = [id |-> Len(stack[t]), th |-> t],
                                       !.nGetCulprit = @ + 1])
  /\ ret' = NoRet
  /\ UNCHANGED <<head, nodes, order, unwinding>>
  /\ UNCHANGED annvars
  /\ UNCHANGED logvars

\* MErrorAccess<ErrorBuilderFinalizer>::operator= : BuildError() on the
\* builder gives the value of the return statement.
BuildError(t) ==
  /\ ~unwinding[t]
  /\ stack[t] # <<>>
  /\ Top(t).pc \in {"culprit", "vfail"}
  /\ stack' = SetTop(t, [Top(t) EXCEPT !.pc = "built"])
  /\ ret' = NoRet
  /\ UNCHANGED <<head, nodes, order, unwinding>>
  /\ UNCHANGED annvars
  /\ UNCHANGED logvars

\* A destructor that never removes the stash entry.
DtorRemovesNoRemove(f) == FALSE

\* ~MTryState: if (stash_ != nullptr) tls_map::Remove<Stash>(Key).
DtorRemoves(f) == f.kind = "try" /\ f.stash # nullptr

RECURSIVE PopFrames(_, _, _, _, _)
\* The destructors of the k topmost frames of fs, run from the top down, on
\* the map (h, ns) with insertion history ord.
PopFrames(h, ns, ord, fs, k) ==
  IF k = 0
  THEN [nodes |-> ns, order |-> ord, popped |-> <<>>, removed |-> <<>>]
  ELSE LET f == fs[Len(fs)]
           n == IF DtorRemoves(f) THEN NodeGet(h, ns, f.key) ELSE nullptr
           ns1 == IF DtorRemoves(f) THEN Remove(h, ns, f.key) ELSE ns
           ord1 == IF DtorRemoves(f) THEN HistRemove(ord, f.key) ELSE ord
           f1 == IF DtorRemoves(f) THEN [f EXCEPT !.nStash = @ + 1] ELSE f
           rest == PopFrames(h, ns1, ord1, SubSeq(fs, 1, Len(fs) - 1), k - 1)
       IN [nodes |-> rest.nodes, order |-> rest.order,
           popped |-> <<f1>> \o rest.popped,
           removed |-> <<n>> \o rest.removed]

\* The number of frames at the top of fs that belong to the function of the
\* topmost frame.
SameDepth(fs) ==
  Cardinality({i \in 1..Len(fs) : fs[i].depth = fs[Len(fs)].depth})

Exit(t, k, op) ==
  LET r == PopFrames(head[t], nodes[t], order[t], stack[t], k) IN
  /\ nodes' = [nodes EXCEPT ![t] = r.nodes]
  /\ order' = [order EXCEPT ![t] = r.order]
  /\ stack' = [stack EXCEPT ![t] = SubSeq(@, 1, Len(@) - k)]
  /\ ret' = [op |-> op, t |-> t, popped |-> r.popped, removed |-> r.removed]
  /\ UNCHANGED head

\* An expansion whose failure branch destroys the MTryState of the failed
\* evaluation and lets the function go on.
ReturnTopOnly(t) ==
  /\ ~unwinding[t]
  /\ stack[t] # <<>>
  /\ Top(t).pc = "built"
  /\ Exit(t, 1, "Return")
  /\ UNCHANGED unwinding
  /\ UNCHANGED annvars
  /\ UNCHANGED logvars

\* The return statement of a failed MTRY or MVERIFY: the temporaries of the
\* function's current full expression are destroyed and control goes back to
\* the caller.
Return(t) ==
  /\ ~unwinding[t]
  /\ stack[t] # <<>>
  /\ Top(t).pc = "built"
  /\ Exit(t, SameDepth(stack[t]), "Return")
  /\ UNCHANGED unwinding
  /\ UNCHANGED annvars
  /\ UNCHANGED logvars

\* The end of the full expression of a successful evaluation: its temporary
\* is destroyed.
EndExpr(t) ==
  /\ ~unwinding[t]
  /\ stack[t] # <<>>
  /\ Top(t).pc \in {"value", "vok"}
  /\ Exit(t, 1, "EndExpr")
  /\ UNCHANGED unwinding
  /\ UNCHANGED annvars
  /\ UNCHANGED logvars

\* Code run by an evaluation throws an exception.
Throw(t) ==
  /\ ~unwinding[t]
  /\ stack[t] # <<>>
  /\ Top(t).pc \in NestingPcs \cup {"got"}
  /\ unwinding' = [unwinding EXCEPT ![t] = TRUE]
  /\ ret' = NoRet
  /\ UNCHANGED <<head, nodes, order, stack>>
  /\ UNCHANGED annvars
  /\ UNCHANGED logvars

\* Stack unwinding destroys the topmost temporary.
Unwind(t) ==
  /\ unwinding[t]
  /\ stack[t] # <<>>
  /\ Exit(t, 1, "Unwind")
  /\ UNCHANGED unwinding
  /\ UNCHANGED annvars
  /\ UNCHANGED logvars

\* A handler catches the exception.
Catch(t) ==
  /\ unwinding[t]
  /\ unwinding' = [unwinding EXCEPT ![t] = FALSE]
  /\ ret' = NoRet
  /\ UNCHANGED <<head, nodes, order, stack>>
  /\ UNCHANGED annvars
  /\ UNCHANGED logvars

(***************************************************************************)
(* domain/internal/type_map.h: a TypeMap is a std::tuple of Pair<Key,      *)
(* Value>, modelled as the sequence of its elements, element 0 first.  A   *)
(* value is [rm |-> FALSE, val |-> v], or RemoveTag.                       *)
(***************************************************************************)

\* The bound of the exploration: the number of pairs held by the error
\* domains and the error builder together.
MaxAnn == 3

\* The keys of annotations (domain/status.h).
Tags == {"ErrorCodeAnnotation", "DefaultErrorCodeAnnotation"}

\* The annotated values: two status codes.
Vals == {1, 2}

Value(v) == [rm |-> FALSE, val |-> v]

\* struct RemoveTag {}
RemoveTag == [rm |-> TRUE, val |-> 0]

EmptyTypeMap == <<>>

\* MakePair<Key>(value)
MakePair(key, value) == [key |-> key, value |-> value]

\* PushFront<Key, Value>{value}(elems...)
PushFront(key, value, elems) == <<MakePair(key, value)>> \o elems

\* An Add that puts the new pair behind the pairs of the map.
AddBack(key, map, value) == map \o <<MakePair(key, value)>>

\* Add<Key>(map, value)
Add(key, map, value) == PushFront(key, value, map)

\* A RemoveAll that leaves the map as it is.
RemoveAllNoop(key, map) == map

\* RemoveAll<Key>(map)
RemoveAll(key, map) == Add(key, map, RemoveTag)

RECURSIVE GetAllImpl(_, _)
\* GetAllImpl<Key>()(elem, elems...)
GetAllImpl(key, elems) ==
  IF elems = <<>> THEN <<>>
  ELSE IF Head(elems).key # key THEN GetAllImpl(key, Tail(elems))
  ELSE IF Head(elems).value = RemoveTag THEN <<>>
  ELSE <<Head(elems).value>> \o GetAllImpl(key, Tail(elems))

RECURSIVE GetAll(_, _)
\* GetAll<Key>(maps...): std::tuple_cat of GetAll<Key>(map) of every map.
GetAll(key, maps) ==
  IF maps = <<>> THEN <<>>
  ELSE GetAllImpl(key, Head(maps)) \o GetAll(key, Tail(maps))

RECURSIVE HasOne(_, _)
\* Has<Key, std::tuple<Pair<K, V>, Pair<Keys, Values>...>>
HasOne(key, map) ==
  IF map = <<>> THEN FALSE
  ELSE IF Head(map).key = key THEN Head(map).value # RemoveTag
  ELSE HasOne(key, Tail(map))

\* Has<Key, Maps...>: the disjunction of Has<Key, Map> over the maps.
Has(key, maps) == \E i \in 1..Len(maps) : HasOne(key, maps[i])

\* Get<Key>(maps...): std::get<0>(GetAll<Key>(maps...)); it compiles only
\* when the tuple is not empty.
TypeMapGet(key, maps) == GetAll(key, maps)[1]

RECURSIVE GetOrImpl(_, _, _)
\* GetOrImpl<Key>()(first, second, rest...): the last argument is the default.
GetOrImpl(key, maps, default) ==
  IF maps = <<>> THEN default
  ELSE IF Has(key, <<Head(maps)>>) THEN TypeMapGet(key, <<Head(maps)>>)
  ELSE GetOrImpl(key, Tail(maps), default)

\* GetOr<Key>(maps..., default)
GetOr(key, maps, default) == GetOrImpl(key, maps, default)

\* A Reverse that moves its first argument to the back and leaves the rest
\* in the order given.
ReverseShallow(ts) == IF ts = <<>> THEN <<>> ELSE Tail(ts) \o <<Head(ts)>>

RECURSIVE Reverse(_)
\* Reverse()(t, ts...): PushBack<T>{t} applied to Reverse()(ts...).
Reverse(ts) == IF ts = <<>> THEN <<>> ELSE Reverse(Tail(ts)) \o <<Head(ts)>>

RECURSIVE Join(_)
\* Join(tuple): std::tuple_cat of the elements of the tuple.
Join(tuples) == IF tuples = <<>> THEN <<>> ELSE Head(tuples) \o Join(Tail(tuples))

\* A Merge that joins the maps in the order given.
MergeNoReverse(maps) == Join(maps)

\* Merge(maps...)
Merge(maps) == Join(Reverse(maps))

(***************************************************************************)
(* domain/base.h: an error domain is a ConcretePolicy<Policy, Builder,     *)
(* Annotations>, modelled as [Policy, Builder, annotations]: the policy    *)
(* and builder extensions it is layered from, innermost first, and its     *)
(* TypeMap.  An error builder is a ConcreteBuilder, modelled as [policy,   *)
(* context, annotations]: the domain that produced it, the culprit of the  *)
(* error context and its own TypeMap.                                      *)
(***************************************************************************)

\* template <class Base> using Id = Base: no layer at all.
Id == <<>>

RECURSIVE MergeLayers(_, _)
\* MergeLayers<L, Ls...>::type<Base> is MergeLayers<Ls...>::type<L<Base>>.
MergeLayers(ls, base) ==
  IF ls = <<>> THEN base ELSE MergeLayers(Tail(ls), base \o Head(ls))

\* MakePolicy<P, B>(annotations)
MakePolicy(P, B, annotations) ==
  [Policy |-> P, Builder |-> B, annotations |-> annotations]

\* Policy<Impl>(), Builder<Impl>() and Domain<PolicyImpl, BuilderImpl>()
Policy(impl) == MakePolicy(<<impl>>, Id, EmptyTypeMap)

Builder(impl) == MakePolicy(Id, <<impl>>, EmptyTypeMap)

Domain(policyImpl, builderImpl) == MakePolicy(<<policyImpl>>, <<builderImpl>>, EmptyTypeMap)

EmptyDomain == MakePolicy(Id, Id, EmptyTypeMap)

\* BasePolicy::With(extras...)
With(d, extras) ==
  MakePolicy(
    MergeLayers(<<d.Policy>> \o [i \in 1..Len(extras) |-> extras[i].Policy], <<>>),
    MergeLayers(<<d.Builder>> \o [i \in 1..Len(extras) |-> extras[i].Builder], <<>>),
    Merge(<<d.annotations>> \o [i \in 1..Len(extras) |-> extras[i].annotations]))

\* BasePolicy::GetErrorBuilder(ctx)
GetErrorBuilder(p, ctx) ==
  [policy |-> p, context |-> ctx, annotations |-> EmptyTypeMap]

\* ReplaceAnnotations(c, annotations), of a policy or of a builder.
ReplaceAnnotations(c, annotations) == [c EXCEPT !.annotations = annotations]

\* The type maps that the accessors of a container look into: Annotations(p)
\* of a policy; Annotations(b), Annotations(b.policy()) of a builder.
AnnotationMaps(c) ==
  IF "context" \in DOMAIN c
  THEN <<c.annotations, c.policy.annotations>>
  ELSE <<c.annotations>>

\* HasAnnotation<Key>(c)
HasAnnotation(key, c) == Has(key, AnnotationMaps(c))

\* AddAnnotation<Key>(c, value)
AddAnnotation(key, c, value) ==
  ReplaceAnnotations(c, Add(key, c.annotations, value))

\* RemoveAnnotations<Key>(c)
RemoveAnnotations(key, c) ==
  ReplaceAnnotations(c, RemoveAll(key, c.annotations))

\* GetAnnotation<Key>(c)
GetAnnotation(key, c) == TypeMapGet(key, AnnotationMaps(c))

\* GetAnnotationOr<Key>(c, value)
GetAnnotationOr(key, c, value) == GetOr(key, AnnotationMaps(c), value)

\* GetAnnotations<Key>(c)
GetAnnotations(key, c) == GetAll(key, AnnotationMaps(c))

(***************************************************************************)
(* domain/status.h: the error code of the Status that the builder makes.   *)
(* A culprit is [carries, code]: whether it is a Status or a StatusCode,   *)
(* and the code it carries.  The result is [ok, code]; ok is FALSE when    *)
(* the static_assert of Fallback fails.                                    *)
(***************************************************************************)

\* The culprits: an object of a type without an error code, and a Status
\* with the code 3.
Culprits == {[carries |-> FALSE, code |-> 0], [carries |-> TRUE, code |-> 3]}

\* merror::Void, the default of the inner GetAnnotationOr of Fallback.
Void == [rm |-> FALSE, val |-> 0]

\* MakeStatus::MakeMError(ResultType<Status>, const Status& culprit)
MakeMError(b, culprit) ==
  LET code == GetAnnotationOr("ErrorCodeAnnotation", b, Value(culprit.code)).val IN
  [ok |-> TRUE,
   code |-> IF HasAnnotation("ErrorCodeAnnotation", b) THEN code ELSE culprit.code]

\* Fallback(ResultType<Status>, b, culprit)
Fallback(b, culprit) ==
  IF ~(HasAnnotation("DefaultErrorCodeAnnotation", b)
       \/ HasAnnotation("ErrorCodeAnnotation", b))
  THEN [ok |-> FALSE, code |-> 0]
  ELSE [ok |-> TRUE,
        code |-> GetAnnotationOr("ErrorCodeAnnotation", b,
                   GetAnnotationOr("DefaultErrorCodeAnnotation", b, Void)).val]

\* MakeError(r, culprit) of the builder of merror::Default: the method hook
\* MakeMError of MakeStatus when the culprit is a Status, StatusOr or
\* StatusCode; MakeStatusFallback otherwise.
MakeError(b, culprit) ==
  IF culprit.carries THEN MakeMError(b, culprit) ELSE Fallback(b, culprit)

(***************************************************************************)
(* A translation unit that defines error domains, patches them, combines   *)
(* them with With() and evaluates a macro whose builder it patches.        *)
(***************************************************************************)

\* The constexpr variables that hold error domains.
Slots == {"a", "b"}

\* The number of pairs held by the domains and the builder.
AnnSize ==
  SumLen([s \in Slots |-> dom[s].annotations], Slots)
    + (IF bld = <<>> THEN 0 ELSE Len(bld[1].b.annotations))

\* d = AddAnnotation<Key>(d, value), e.g. d = d.ErrorCode(value).
DomainAddAnnotation(s, key, v) ==
  /\ bld = <<>>
  /\ AnnSize < MaxAnn
  /\ dom' = [dom EXCEPT ![s] = AddAnnotation(key, @, Value(v))]
  /\ hist' = [hist EXCEPT ![s] = Append(@, MakePair(key, Value(v)))]
  /\ ret' = [op |-> "DomainAddAnnotation", t |-> "none"]
  /\ UNCHANGED <<bld, mapvars>>
  /\ UNCHANGED logvars

\* d = RemoveAnnotations<Key>(d), e.g. d = d.NoErrorCode().
DomainRemoveAnnotations(s, key) ==
  /\ bld = <<>>
  /\ AnnSize < MaxAnn
  /\ dom' = [dom EXCEPT ![s] = RemoveAnnotations(key, @)]
  /\ hist' = [hist EXCEPT ![s] = Append(@, MakePair(key, RemoveTag))]
  /\ ret' = [op |-> "DomainRemoveAnnotations", t |-> "none"]
  /\ UNCHANGED <<bld, mapvars>>
  /\ UNCHANGED logvars

\* dom[s].With(dom[extras[1]], ...) is evaluated.
DomainWith(s, extras) ==
  /\ bld = <<>>
  /\ ret' = [op |-> "With", t |-> "none", d0 |-> s, extras |-> extras,
             res |-> With(dom[s], [i \in 1..Len(extras) |-> dom[extras[i]]])]
  /\ UNCHANGED <<annvars, mapvars>>
  /\ UNCHANGED logvars

\* A macro that uses the domain dom[s] detects an error: the expansion calls
\* GetErrorBuilder with the error context.
MacroGetErrorBuilder(s, culprit) ==
  /\ bld = <<>>
  /\ bld' = <<[b |-> GetErrorBuilder(dom[s], culprit), from |-> s, ops |-> <<>>]>>
  /\ ret' = [op |-> "GetErrorBuilder", t |-> "none"]
  /\ UNCHANGED <<dom, hist, mapvars>>
  /\ UNCHANGED logvars

\* A patch in the scope of the macro: AddAnnotation<Key>(std::move(builder), value).
BuilderAddAnnotation(key, v) ==
  /\ bld # <<>>
  /\ AnnSize < MaxAnn
  /\ bld' = <<[bld[1] EXCEPT !.b = AddAnnotation(key, @, Value(v)),
                             !.ops = Append(@, MakePair(key, Value(v)))]>>
  /\ ret' = [op |-> "BuilderAddAnnotation", t |-> "none"]
  /\ UNCHANGED <<dom, hist, mapvars>>
  /\ UNCHANGED logvars

\* A patch in the scope of the macro: RemoveAnnotations<Key>(std::move(builder)).
BuilderRemoveAnnotations(key) ==
  /\ bld # <<>>
  /\ AnnSize < MaxAnn
  /\ bld' = <<[bld[1] EXCEPT !.b = RemoveAnnotations(key, @),
                             !.ops = Append(@, MakePair(key, RemoveTag))]>>
  /\ ret' = [op |-> "BuilderRemoveAnnotations", t |-> "none"]
  /\ UNCHANGED <<dom, hist, mapvars>>
  /\ UNCHANGED logvars

\* The builder makes the Status that the macro returns.
BuilderMakeError ==
  /\ bld # <<>>
  /\ bld' = <<>>
  /\ ret' = [op |-> "MakeError", t |-> "none", b |-> bld[1].b,
             ops |-> hist[bld[1].from] \o bld[1].ops,
             res |-> MakeError(bld[1].b, bld[1].b.context)]
  /\ UNCHANGED <<dom, hist, mapvars>>
  /\ UNCHANGED logvars

(***************************************************************************)
(* expand_expr.h: INTERNAL_MERROR_EXPAND_EXPR(visitor, expr) expands to    *)
(*   ExprVisitor::Visit((ExprBuilder()->*expr), (visitor)).                *)
(* An expression is the tree that C++ parses the macro argument into:      *)
(*   <<"leaf", v>>         an operand that binds tighter than ->* (a       *)
(*                         literal, a call, a unary expression) of value v *)
(*   <<"paren", e>>        a parenthesized expression                      *)
(*   <<"bin", op, l, r>>   l op r                                          *)
(*   <<"cond", c, x, y>>   c ? x : y                                       *)
(* An operand evaluated is named by its path from the root.                *)
(***************************************************************************)

\* Bound of the exploration: the operators and parentheses of an expression.
MaxOps == 2

\* The values of the operands; a bool is 0 or 1.
LeafVals == {0, 1}

\* Operators that Expr overloads, and the builtin ones that it leaves alone.
Overloaded == {"+", "<", "=="}

Logical == {"&&", "||"}

\* The relational operators (RelationalOperator).
Relational == {"<", "=="}

\* The precedence of the operator at the root of an expression.
Prec(e) ==
  IF e[1] \in {"leaf", "paren"} THEN 10
  ELSE IF e[1] = "cond" THEN 1
  ELSE CASE e[2] = "+" -> 6
         [] e[2] = "<" -> 5
         [] e[2] = "==" -> 4
         [] e[2] = "&&" -> 3
         [] e[2] = "||" -> 2

PrecOf(op) == Prec(<<"bin", op, <<"leaf", 0>>, <<"leaf", 0>>>>)

RECURSIVE ExprsOfSize(_)
\* The expressions with n operators and parentheses that C++ parses as
\* written, without further parentheses.
ExprsOfSize(n) ==
  IF n = 0 THEN {<<"leaf", v>> : v \in LeafVals}
  ELSE {<<"paren", e>> : e \in ExprsOfSize(n - 1)}
       \cup UNION {
              {<<"bin", op, lr[1], lr[2]>> :
                 op \in {o \in Overloaded \cup Logical :
                           Prec(lr[1]) >= PrecOf(o) /\ Prec(lr[2]) > PrecOf(o)}} :
              lr \in UNION {ExprsOfSize(i) \X ExprsOfSize(n - 1 - i) :
                                   i \in 0..(n - 1)}}
       \cup UNION {
              {<<"cond", c, x, y>> :
                 c \in {c0 \in ExprsOfSize(i) : Prec(c0) > 1},
                 x \in ExprsOfSize(j),
                 y \in ExprsOfSize(n - 1 - i - j)} :
              <<i, j>> \in {ij \in (0..(n - 1)) \X (0..(n - 1)) :
                              ij[1] + ij[2] <= n - 1}}

\* The arguments of the macros.
Exprs == UNION {ExprsOfSize(n) : n \in 0..MaxOps}

\* The value of l op r.
Apply(op, l, r) ==
  CASE op = "+" -> l + r
    [] op = "<" -> IF l < r THEN 1 ELSE 0
    [] op = "==" -> IF l = r THEN 1 ELSE 0
    [] op = "&&" -> IF l # 0 /\ r # 0 THEN 1 ELSE 0
    [] op = "||" -> IF l # 0 \/ r # 0 THEN 1 ELSE 0

\* The builtin && and || do not evaluate their right operand when the left
\* one decides the result.
BuiltinSkips(op, lv) == (op = "&&" /\ lv = 0) \/ (op = "||" /\ lv # 0)

RECURSIVE StdEval(_, _)
\* The evaluation of the expression e at path as C++ defines it: its value
\* and the operands evaluated, in the order of their evaluation.
StdEval(e, path) ==
  CASE e[1] = "leaf" -> [val |-> e[2], trace |-> <<path>>]
    [] e[1] = "paren" -> StdEval(e[2], Append(path, 1))
    [] e[1] = "bin" ->
         LET l == StdEval(e[3], Append(path, 1)) IN
         IF e[2] \in Logical /\ BuiltinSkips(e[2], l.val)
         THEN [val |-> IF l.val # 0 THEN 1 ELSE 0, trace |-> l.trace]
         ELSE LET r == StdEval(e[4], Append(path, 2)) IN
              [val |-> Apply(e[2], l.val, r.val), trace |-> l.trace \o r.trace]
    [] e[1] = "cond" ->
         LET c == StdEval(e[2], Append(path, 1))
             x == StdEval(e[IF c.val # 0 THEN 3 ELSE 4],
                          Append(path, IF c.val # 0 THEN 2 ELSE 3))
         IN [val |-> x.val, trace |-> c.trace \o x.trace]

\* An Expr with an overloaded operator&& and operator||, whose operands are
\* both evaluated for the call.
ExprSkipsNever(op, lv) == FALSE

\* Expr declares no operator&& and no operator||, only an explicit
\* operator bool: the builtin operator applies to an Expr on its left, and it
\* skips the right operand as it does for a bool.
ExprSkips(op, lv) == BuiltinSkips(op, lv)

\* The last operation of an expression that is not an Expr<L, R, Op>.
NoTop == [rel |-> FALSE, op |-> "", left |-> 0, right |-> 0]

RECURSIVE ExprBuilder(_, _)
\* The evaluation of ExprBuilder()->*e. ->* binds tighter than every
\* operator of e, so that the builder takes the leftmost operand of e and
\* every operator on the path to it has an Expr as its left operand: an
\* overloaded operator captures its right operand, evaluated as C++ defines
\* it; operator bool visits the captured operands with CastToBool for a
\* builtin &&, || or ?:, whose result is no longer an Expr. val is the value
\* that ExprVisitor::Visit computes, top its last operation.
ExprBuilder(e, path) ==
  CASE e[1] = "leaf" ->
         [isExpr |-> TRUE, val |-> e[2], trace |-> <<path>>, top |-> NoTop]
    [] e[1] = "paren" ->
         LET v == StdEval(e[2], Append(path, 1)) IN
         [isExpr |-> TRUE, val |-> v.val, trace |-> v.trace, top |-> NoTop]
    [] e[1] = "bin" /\ e[2] \in Overloaded ->
         LET l == ExprBuilder(e[3], Append(path, 1))
             r == StdEval(e[4], Append(path, 2))
         IN [isExpr |-> TRUE, val |-> Apply(e[2], l.val, r.val),
             trace |-> l.trace \o r.trace,
             top |-> [rel |-> e[2] \in Relational, op |-> e[2],
                      left |-> l.val, right |-> r.val]]
    [] e[1] = "bin" /\ e[2] \in Logical ->
         LET l == ExprBuilder(e[3], Append(path, 1)) IN
         IF ExprSkips(e[2], l.val)
         THEN [isExpr |-> FALSE, val |-> IF l.val # 0 THEN 1 ELSE 0,
               trace |-> l.trace, top |-> NoTop]
         ELSE LET r == StdEval(e[4], Append(path, 2)) IN
              [isExpr |-> FALSE, val |-> Apply(e[2], l.val, r.val),
               trace |-> l.trace \o r.trace, top |-> NoTop]
    [] e[1] = "cond" ->
         LET c == ExprBuilder(e[2], Append(path, 1))
             x == StdEval(e[IF c.val # 0 THEN 3 ELSE 4],
                          Append(path, IF c.val # 0 THEN 2 ELSE 3))
         IN [isExpr |-> FALSE, val |-> x.val, trace |-> c.trace \o x.trace,
             top |-> NoTop]

\* ExprVisitor::Visit(expr, visitor): the arguments of the call of the
\* visitor. A relational operator applied last calls
\* visitor(left, op, right, left op right), anything else visitor(value).
ExprVisitorVisit(b) ==
  IF b.isExpr /\ b.top.rel
  THEN [args |-> 4, left |-> b.top.left, op |-> b.top.op,
        right |-> b.top.right, val |-> b.val]
  ELSE [args |-> 1, left |-> 0, op |-> "", right |-> 0, val |-> b.val]

\* Domain::PrintOperands of a domain that prints its operands: the strings
\* and the result, which the domain chooses.
PrintOperands(left, right, print_res) ==
  [left |-> ToString(left), right |-> ToString(right), res |-> print_res]

\* Acceptor::IsError() of a domain that verifies a bool.
IsError(val) == val = 0

\* A relational overload that keeps the record when PrintOperands returns
\* false.
VerifierRelExprNoClear(op, printed) ==
  <<[left |-> printed.left, op |-> op, right |-> printed.right]>>

\* rel_expr of the relational overload of Verifier::operator() after
\* emplace(): the operator is set when PrintOperands returns true, and the
\* record cleared otherwise. The optional is a sequence of at most one record.
VerifierRelExpr(op, printed) ==
  IF printed.res
  THEN <<[left |-> printed.left, op |-> op, right |-> printed.right]>>
  ELSE <<>>

\* Verifier::operator(): the culprit and rel_expr of the VerificationResult.
Verifier(call, print_res) ==
  IF ~IsError(call.val) THEN [culprit |-> <<>>, rel_expr |-> <<>>]
  ELSE IF call.args = 4
  THEN [culprit |-> <<call.val>>,
        rel_expr |-> VerifierRelExpr(call.op,
                       PrintOperands(call.left, call.right, print_res))]
  ELSE [culprit |-> <<call.val>>, rel_expr |-> <<>>]

\* MVERIFY(e) in a domain whose PrintOperands returns print_res. The error
\* context is built when the result has a culprit, and it takes rel_expr from
\* the result; std is the evaluation of e outside the macro.
MVerify(e, print_res) ==
  LET b == ExprBuilder(e, <<>>)
      call == ExprVisitorVisit(b)
      res == Verifier(call, print_res)
  IN /\ ret' = [op |-> "MVerify", t |-> "none", e |-> e,
                print_res |-> print_res, std |-> StdEval(e, <<>>),
                trace |-> b.trace, call |-> call,
                error |-> res.culprit # <<>>,
                ctx |-> IF res.culprit # <<>>
                        THEN <<[culprit |-> res.culprit[1],
                                rel_expr |-> res.rel_expr]>>
                        ELSE <<>>]
     /\ UNCHANGED <<mapvars, annvars>>
     /\ UNCHANGED logvars

(***************************************************************************)
(* tee.h: Tee(sink) stores the sink under TeeAnnotation, NoTee() removes   *)
(* the stored sinks, and ObserveRetVal passes the error to the sinks.      *)
(***************************************************************************)

\* The sinks passed to Tee().
Sinks == {1, 2, 3}

\* A TeeAll that starts with the first element of the tuple.
TeeAllForward(I, sinks) == SubSeq(sinks, 1, I)

RECURSIVE TeeAll(_, _)
\* TeeAll<I>()(builder, sinks): FillError with std::get<I - 1>(sinks), then
\* TeeAll<I - 1>.  The result is the sinks in the order of their use.
TeeAll(I, sinks) ==
  IF I = 0 THEN <<>> ELSE <<sinks[I]>> \o TeeAll(I - 1, sinks)

\* Builder::ObserveRetVal of tee.h: the error goes to the stored sinks before
\* the macro returns.
TeeObserveRetVal ==
  /\ bld # <<>>
  /\ LET sinks == GetAnnotations("TeeAnnotation", bld[1].b) IN
     ret' = [op |-> "ObserveRetVal", t |-> "none",
             policy |-> hist[bld[1].from], scope |-> bld[1].ops,
             used |-> TeeAll(Len(sinks), sinks)]
  /\ bld' = <<>>
  /\ UNCHANGED <<dom, hist, mapvars>>
  /\ UNCHANGED logvars

(***************************************************************************)
(* logging.cc: the log filters.  ShouldLog finds, under the mutex of the   *)
(* filter map, the filter of the macro location and asks it.               *)
(***************************************************************************)

\* Bound of the exploration: the log records produced over all threads.
MaxRecords == 3

\* The macro locations (location_id of the error context).
Locations == {1, 2}

\* The values of n in FirstN(n).
Ns == {-1, 0, 1, 2}

NoCall == [pc |-> "idle", loc |-> 0, n |-> 0, res |-> FALSE]

\* FirstN::Filter::AlwaysTrue
AlwaysTrue(n) == FALSE

\* A test that also accepts the record whose index is n.
FirstNTestInclusive(i, n) == i <= n

\* FirstN::Filter::Test, on the value i that i_.fetch_add(1) returned.
FirstNTest(i, n) == i < n

\* The records that went through a filter or are on their way to one.
Records ==
  SumLen(log, Locations)
    + Cardinality({t \in Threads : calls[t].pc \in {"lock", "find", "test"}})

\* Builder::ObserveRetVal calls ShouldLog(FirstN(n), ctx.location_id) on
\* thread t; the filter is not trivial, so the call goes on to the filter map.
ShouldLogBegin(t, l, n) ==
  /\ calls[t].pc = "idle"
  /\ Records < MaxRecords
  /\ ~AlwaysTrue(n)
  /\ calls' = [calls EXCEPT ![t] = [pc |-> "lock", loc |-> l, n |-> n, res |-> FALSE]]
  /\ ret' = NoRet
  /\ UNCHANGED <<mutex, filters, log, mapvars, annvars>>

\* std::lock_guard<std::mutex> lk(map->first)
ShouldLogLock(t) ==
  /\ calls[t].pc = "lock"
  /\ mutex = "none"
  /\ mutex' = t
  /\ calls' = [calls EXCEPT ![t].pc = "find"]
  /\ ret' = NoRet
  /\ UNCHANGED <<filters, log, mapvars, annvars>>

\* map->second.find(key), and the emplace of a new Filter when there is none.
ShouldLogFind(t) ==
  /\ calls[t].pc = "find"
  /\ filters' = [filters EXCEPT ![calls[t].loc] = IF @ = <<>> THEN <<0>> ELSE @]
  /\ calls' = [calls EXCEPT ![t].pc = "test"]
  /\ ret' = NoRet
  /\ UNCHANGED <<mutex, log, mapvars, annvars>>

\* iter->second->Test(filter): i_.fetch_add(1) and the comparison with n_.
ShouldLogTest(t) ==
  /\ calls[t].pc = "test"
  /\ LET l == calls[t].loc
         i == filters[l][1]
         ok == FirstNTest(i, calls[t].n)
     IN /\ filters' = [filters EXCEPT ![l] = <<i + 1>>]
        /\ calls' = [calls EXCEPT ![t].pc = "unlock", ![t].res = ok]
        /\ log' = [log EXCEPT ![l] = Append(@, [n |-> calls[t].n, ok |-> ok, t |-> t])]
  /\ ret' = NoRet
  /\ UNCHANGED <<mutex, mapvars, annvars>>

\* ShouldLog returns: the lock_guard releases the mutex.
ShouldLogReturn(t) ==
  /\ calls[t].pc = "unlock"
  /\ mutex' = "none"
  /\ calls' = [calls EXCEPT ![t] = NoCall]
  /\ ret' = [op |-> "ShouldLog", t |-> t, loc |-> calls[t].loc, n |-> calls[t].n,
             res |-> calls[t].res]
  /\ UNCHANGED <<filters, log, mapvars, annvars>>

Init ==
  /\ head = [t \in Threads |-> nullptr]
  /\ nodes = [t \in Threads |-> <<>>]
  /\ order = [t \in Threads |-> <<>>]
  /\ stack = [t \in Threads |-> <<>>]
  /\ unwinding = [t \in Threads |-> FALSE]
  /\ ret = NoRet
  /\ dom = [s \in Slots |->
              IF s = "a" THEN With(EmptyDomain, <<Policy("Pa"), Builder("Ba")>>)
              ELSE Domain("Pb", "Bb")]
  /\ hist = [s \in Slots |-> <<>>]
  /\ bld = <<>>
  /\ mutex = "none"
  /\ filters = [l \in Locations |-> <<>>]
  /\ calls = [t \in Threads |-> NoCall]
  /\ log = [l \in Locations |-> <<>>]

MapNext ==
  \/ \E t \in Threads, key \in Keys, ty \in Types : MapPut(t, key, ty)
  \/ \E t \in Threads, key \in Keys, ty \in Types : MapGet(t, key, ty)
  \/ \E t \in Threads, key \in Keys, ty \in Types : MapRemove(t, key, ty)

MapSpec == Init /\ [][MapNext]_vars

Next ==
  \/ \E t \in Threads, key \in Keys, err \in BOOLEAN, same \in BOOLEAN :
        TryBegin(t, key, err, same)
  \/ \E t \in Threads : GetSelfOrNull(t)
  \/ \E t \in Threads : GetValue(t)
  \/ \E t \in Threads : StashGet(t)
  \/ \E t \in Threads : GetCulprit(t)
  \/ \E t \in Threads, err \in BOOLEAN, same \in BOOLEAN : VerifyBegin(t, err, same)
  \/ \E t \in Threads : VerifierIsError(t)
  \/ \E t \in Threads : VerifierGetCulprit(t)
  \/ \E t \in Threads : BuildError(t)
  \/ \E t \in Threads : Return(t)
  \/ \E t \in Threads : EndExpr(t)
  \/ \E t \in Threads : Throw(t)
  \/ \E t \in Threads : Unwind(t)
  \/ \E t \in Threads : Catch(t)

Spec == Init /\ [][Next]_vars

AnnNext ==
  \/ \E s \in Slots, key \in Tags, v \in Vals : DomainAddAnnotation(s, key, v)
  \/ \E s \in Slots, key \in Tags : DomainRemoveAnnotations(s, key)
  \/ \E s \in Slots, x \in Slots : DomainWith(s, <<x>>)
  \/ \E s \in Slots, x \in Slots, y \in Slots : DomainWith(s, <<x, y>>)
  \/ \E s \in Slots, culprit \in Culprits : MacroGetErrorBuilder(s, culprit)
  \/ \E key \in Tags, v \in Vals : BuilderAddAnnotation(key, v)
  \/ \E key \in Tags : BuilderRemoveAnnotations(key)
  \/ BuilderMakeError

AnnSpec == Init /\ [][AnnNext]_vars

TeeNext ==
  \/ \E s \in Slots, v \in Sinks : DomainAddAnnotation(s, "TeeAnnotation", v)
  \/ \E s \in Slots : DomainRemoveAnnotations(s, "TeeAnnotation")
  \/ \E s \in Slots, culprit \in Culprits : MacroGetErrorBuilder(s, culprit)
  \/ \E v \in Sinks : BuilderAddAnnotation("TeeAnnotation", v)
  \/ BuilderRemoveAnnotations("TeeAnnotation")
  \/ TeeObserveRetVal

TeeSpec == Init /\ [][TeeNext]_vars

LogNext ==
  \/ \E t \in Threads, l \in Locations, n \in Ns : ShouldLogBegin(t, l, n)
  \/ \E t \in Threads : ShouldLogLock(t)
  \/ \E t \in Threads : ShouldLogFind(t)
  \/ \E t \in Threads : ShouldLogTest(t)
  \/ \E t \in Threads : ShouldLogReturn(t)

LogSpec == Init /\ [][LogNext]_vars

\* The verifications of the expressions. A verification reads and leaves no
\* state, so that each is explored once, from the initial state.
ExprNext ==
  /\ ret.op # "MVerify"
  /\ \E e \in Exprs, print_res \in BOOLEAN : MVerify(e, print_res)

ExprSpec == Init /\ [][ExprNext]_vars

(***************************************************************************)
(* Properties                                                              *)
(***************************************************************************)

Frames(t) == {stack[t][i] : i \in 1..Len(stack[t])}

IsExit == ret.op \in {"Return", "EndExpr", "Unwind"}

\* The nesting level a frame popped by the last exit had on its thread.
PoppedLevel(i) == Len(stack[ret.t]) + Len(ret.popped) - i + 1

\* C1: when the acceptor of an MTRY evaluation reports no error, the
\* evaluation performs no Put, Get or Remove on the thread's stash map, from
\* its construction to the destruction of its MTryState.
C1_SuccessNeverTouchesStash ==
  /\ \A t \in Threads : \A f \in Frames(t) :
       (f.kind = "try" /\ ~f.err) => (f.nStash = 0 /\ f.stash = nullptr)
  /\ IsExit =>
       \A i \in 1..Len(ret.popped) :
         (ret.popped[i].kind = "try" /\ ~ret.popped[i].err)
           => (ret.popped[i].nStash = 0 /\ ret.removed[i] = nullptr)

\* A successful MTRY, evaluated while a failed one holds a stash entry on the
\* thread, has ended.
C1_Witness ==
  /\ ret.op = "EndExpr"
  /\ ret.popped[1].kind = "try"
  /\ ~ret.popped[1].err
  /\ ret.popped[1].nGetValue = 1
  /\ Size(head[ret.t], nodes[ret.t]) >= 1

\* C2: a failing MTRY evaluation reads, in its consumption step, the stash
\* entry and the culprit that it put itself, also when failing evaluations of
\* the same call site are nested.
C2_ConsumesOwnEntry ==
  /\ \A t \in Threads : \A i \in 1..Len(stack[t]) :
       LET f == stack[t][i] IN
       (f.kind = "try" /\ f.pc \in {"got", "culprit", "built"})
         => /\ f.got = f.stash
            /\ f.pc # "got" => f.culprit = [id |-> i, th |-> t]
  /\ IsExit =>
       \A i \in 1..Len(ret.popped) :
         LET f == ret.popped[i] IN
         (f.kind = "try" /\ f.pc \in {"got", "culprit", "built"})
           => /\ f.got = f.stash
              /\ f.pc # "got" => f.culprit = [id |-> PoppedLevel(i), th |-> ret.t]

\* Two failing evaluations of one call site are nested and the inner one has
\* taken its culprit.
C2_Witness ==
  \E t \in Threads :
    /\ Len(stack[t]) >= 2
    /\ LET f == stack[t][Len(stack[t]) - 1]
           g == stack[t][Len(stack[t])]
       IN /\ f.kind = "try" /\ g.kind = "try"
          /\ f.key = g.key
          /\ f.stash # nullptr /\ g.stash # nullptr
          /\ f.pc = "culprit" /\ g.pc = "culprit"

\* C3: the stash entry of a failed MTRY is live, with the key and the acceptor
\* of that evaluation, from its Put until the failure value is built, and it
\* is free again when the return statement has given control to the caller.
C3_LiveUntilReturn ==
  /\ \A t \in Threads : \A i \in 1..Len(stack[t]) :
       LET f == stack[t][i] IN
       (f.kind = "try" /\ f.err /\ f.pc \in {"stashed", "got", "culprit", "built"})
         => /\ f.stash \in Live(head[t], nodes[t])
            /\ nodes[t][f.stash].key = f.key
            /\ nodes[t][f.stash].val = [ty |-> StashType(f.key), id |-> i, th |-> t]
  /\ ret.op = "Return" =>
       \A i \in 1..Len(ret.popped) :
         LET f == ret.popped[i] IN
         (f.kind = "try" /\ f.err)
           => /\ f.stash # nullptr
              /\ f.stash \notin Live(head[ret.t], nodes[ret.t])
              /\ nodes[ret.t][f.stash].key = kFree

\* A failed MTRY has built its failure value and returned.
C3_Witness ==
  /\ ret.op = "Return"
  /\ ret.popped[1].kind = "try"
  /\ ret.popped[1].pc = "built"
  /\ ret.popped[1].stash # nullptr

\* C4: when the scope of an MTRY has been left, by return, at the end of the
\* full expression or by an exception, the thread has as many live stash
\* entries as before the evaluation, every entry it put has been removed once,
\* and the live entries are those of the evaluations still in progress.
C4_NoLeak ==
  /\ \A t \in Threads :
       /\ Live(head[t], nodes[t]) = {f.stash : f \in {g \in Frames(t) : g.stash # nullptr}}
       /\ Size(head[t], nodes[t]) = Cardinality({i \in 1..Len(stack[t]) : stack[t][i].stash # nullptr})
  /\ IsExit =>
       LET P == {i \in 1..Len(ret.popped) : ret.popped[i].stash # nullptr} IN
       /\ Size(head[ret.t], nodes[ret.t]) = ret.popped[Len(ret.popped)].size0
       /\ \A i \in 1..Len(ret.popped) : i \notin P => ret.removed[i] = nullptr
       /\ {ret.removed[i] : i \in P} = {ret.popped[i].stash : i \in P}
       /\ Cardinality({ret.removed[i] : i \in P}) = Cardinality(P)

\* An exception has ended a failed MTRY after its Put and before its failure
\* value was built.
C4_Witness ==
  /\ ret.op = "Unwind"
  /\ ret.popped[1].kind = "try"
  /\ ret.popped[1].stash # nullptr
  /\ ret.popped[1].pc \in {"got", "culprit"}

\* C5: Get<T>(key) returns the value put last with that key among the values
\* of the thread's map that have not been removed.
C5_GetReturnsLatest ==
  /\ \A t \in Threads : \A key \in Keys :
       /\ HasKey(head[t], nodes[t], key) <=> LastWith(order[t], key) # 0
       /\ HasKey(head[t], nodes[t], key)
            => Get(head[t], nodes[t], key) = HistGet(order[t], key)
  /\ ret.op = "Get" => ret.node = HistGet(order[ret.t], ret.key)

\* Get has returned the later of two live values put with one key.
C5_Witness ==
  /\ ret.op = "Get"
  /\ \E i, j \in 1..Len(order[ret.t]) :
       /\ i < j
       /\ order[ret.t][i].key = ret.key
       /\ order[ret.t][j].key = ret.key
       /\ order[ret.t][j].node = ret.node

\* What a thread can observe of its map.
MapView(h, ns) ==
  [size |-> Size(h, ns),
   capacity |-> Capacity(h, ns),
   get |-> [key \in Keys |-> IF HasKey(h, ns, key) THEN Get(h, ns, key) ELSE nullptr],
   val |-> [key \in Keys |-> IF HasKey(h, ns, key) THEN ns[Get(h, ns, key)].val ELSE NoVal]]

\* C6: Remove<T>(key) frees the node of the value put last with that key and
\* nothing else: every other node keeps its key and value, and Get gives for
\* every key the value put last among those that remain.
C6_RemoveOnlyLatest ==
  [][ret'.op = "Remove" =>
       LET t == ret'.t
           n == HistGet(order[t], ret'.key)
       IN /\ ret'.node = n
          /\ nodes'[t][n].key = kFree
          /\ Len(nodes'[t]) = Len(nodes[t])
          /\ \A m \in 1..Len(nodes[t]) : m # n => nodes'[t][m] = nodes[t][m]
          /\ Live(head'[t], nodes'[t]) = Live(head[t], nodes[t]) \ {n}
          /\ \A key \in Keys :
               /\ HasKey(head'[t], nodes'[t], key) <=> LastWith(order'[t], key) # 0
               /\ HasKey(head'[t], nodes'[t], key)
                    => Get(head'[t], nodes'[t], key) = HistGet(order'[t], key)]_vars

\* Remove has taken the later of two values with one key; the earlier one is
\* what Get returns now.
C6_Witness ==
  /\ ret.op = "Remove"
  /\ nodes[ret.t][ret.node].key = kFree
  /\ HasKey(head[ret.t], nodes[ret.t], ret.key)
  /\ Get(head[ret.t], nodes[ret.t], ret.key) # ret.node
  /\ Size(head[ret.t], nodes[ret.t]) >= 2

HasFree(h, ns) == \E n \in SeqRange(Chain(ns, h)) : ns[n].key = kFree

\* C7: Put allocates a node only when the thread's map has no free node; when
\* it has one, Put returns a free node of the map and Capacity is unchanged.
C7_PutReusesFreeNodes ==
  [][ret'.op = "Put" =>
       LET t == ret'.t IN
       IF HasFree(head[t], nodes[t])
       THEN /\ Len(nodes'[t]) = Len(nodes[t])
            /\ Capacity(head'[t], nodes'[t]) = Capacity(head[t], nodes[t])
            /\ ret'.node \in SeqRange(Chain(nodes[t], head[t]))
            /\ nodes[t][ret'.node].key = kFree
            /\ ~ret'.fresh
       ELSE /\ Len(nodes'[t]) = Len(nodes[t]) + 1
            /\ Capacity(head'[t], nodes'[t]) = Capacity(head[t], nodes[t]) + 1
            /\ ret'.fresh]_vars

\* Put has reused a node of a map that holds other live values and still has
\* a free node.
C7_Witness ==
  /\ ret.op = "Put"
  /\ ~ret.fresh
  /\ Size(head[ret.t], nodes[ret.t]) >= 2
  /\ Capacity(head[ret.t], nodes[ret.t]) > Size(head[ret.t], nodes[ret.t])

\* C8: the values that are live at the same time, equal keys included, are in
\* distinct nodes: no Put has returned a node that held a live value.
C8_DistinctSlots ==
  \A t \in Threads :
    /\ \A i, j \in 1..Len(order[t]) : i # j => order[t][i].node # order[t][j].node
    /\ \A i \in 1..Len(order[t]) :
         /\ order[t][i].node \in Live(head[t], nodes[t])
         /\ nodes[t][order[t][i].node].key = order[t][i].key
    /\ Size(head[t], nodes[t]) = Len(order[t])

\* Put has returned a node for a key that has another live value.
C8_Witness ==
  /\ ret.op = "Put"
  /\ \E i \in 1..Len(order[ret.t]) :
       /\ order[ret.t][i].key = ret.key
       /\ order[ret.t][i].node # ret.node
       /\ order[ret.t][i].node \in Live(head[ret.t], nodes[ret.t])

\* C9: a Put, Get or Remove of one thread leaves the Size, the Capacity and
\* the Get results of every other thread as they were.
C9_ThreadConfined ==
  [][\A t \in Threads :
       ret'.t # t => /\ MapView(head'[t], nodes'[t]) = MapView(head[t], nodes[t])
                     /\ head'[t] = head[t]
                     /\ nodes'[t] = nodes[t]]_vars

\* One thread has removed a value while another thread holds a value with the
\* same key.
C9_Witness ==
  /\ ret.op = "Remove"
  /\ \E t \in Threads :
       /\ t # ret.t
       /\ HasKey(head[t], nodes[t], ret.key)
       /\ ~HasKey(head[ret.t], nodes[ret.t], ret.key)

\* C10: every MTRY and every MVERIFY evaluation calls IsError() of its
\* acceptor once: not before the call, once from then on.
C10_IsErrorOnce ==
  /\ \A t \in Threads : \A f \in Frames(t) :
       f.nIsError = IF f.pc \in {"constructed", "vconstructed"} THEN 0 ELSE 1
  /\ IsExit => \A i \in 1..Len(ret.popped) : ret.popped[i].nIsError = 1

\* A failed MVERIFY has returned from a function, ending with it an MTRY
\* evaluation of the same function.
C10_Witness ==
  /\ ret.op = "Return"
  /\ \E i, j \in 1..Len(ret.popped) :
       /\ ret.popped[i].kind = "verify"
       /\ ret.popped[j].kind = "try"
       /\ ret.popped[i].nIsError = 1
       /\ ret.popped[j].nIsError = 1

\* C11: an MTRY or MVERIFY evaluation calls GetCulprit() of its acceptor at
\* most once and only after IsError() has returned true; an evaluation whose
\* IsError() has returned true and that ends with its return statement has
\* called it once, and one whose IsError() has returned false never calls it.
C11_GetCulpritOnceIfError ==
  /\ \A t \in Threads : \A f \in Frames(t) :
       /\ f.nGetCulprit = IF f.pc \in {"culprit", "vfail", "built"} THEN 1 ELSE 0
       /\ f.nGetCulprit = 1 => (f.err /\ f.nIsError = 1)
  /\ IsExit =>
       \A i \in 1..Len(ret.popped) :
         LET f == ret.popped[i] IN
         /\ f.nGetCulprit <= 1
         /\ ~f.err => f.nGetCulprit = 0
         /\ ret.op = "Return" => f.nGetCulprit = IF f.err THEN 1 ELSE 0
         /\ (f.err /\ f.nGetCulprit = 0) => (ret.op = "Unwind" /\ f.pc = "got")

\* A function has returned from a failed evaluation that took its culprit,
\* ending with it a successful evaluation that took none.
C11_Witness ==
  /\ ret.op = "Return"
  /\ ret.popped[1].err
  /\ ret.popped[1].nGetCulprit = 1
  /\ \E i \in 2..Len(ret.popped) :
       ~ret.popped[i].err /\ ret.popped[i].nGetCulprit = 0

Failed(f) ==
  f.kind = "try" /\ f.err /\ f.pc \in {"stashed", "got", "culprit", "built"}

\* C13: once an MTRY has failed, its evaluation never gives a value and the
\* rest of the full expression is not evaluated: the evaluation stays on the
\* failure path until the function is left.  The return statement takes its
\* failure from the culprit of the failed MTRY itself and ends every
\* evaluation in progress in the function; the evaluations of the expression
\* that came before it had all succeeded.
C13_ShortCircuit ==
  [][/\ \A t \in Threads : \A i \in 1..Len(stack[t]) :
          Failed(stack[t][i]) =>
            \/ /\ i <= Len(stack'[t])
               /\ Failed(stack'[t][i])
               /\ stack'[t][i].nGetValue = 0
               /\ Len(stack'[t]) > Len(stack[t]) /\ i = Len(stack[t])
                    => stack[t][i].pc = "culprit"
            \/ /\ i > Len(stack'[t])
               /\ ret'.t = t
               /\ ret'.op \in {"Return", "Unwind"}
     /\ ret'.op = "Return" =>
          LET t == ret'.t
              f == ret'.popped[1]
          IN /\ f.pc = "built"
             /\ f.err
             /\ f.nGetValue = 0
             /\ f.kind = "try" =>
                  (f.got = f.stash /\ f.culprit = [id |-> Len(stack[t]), th |-> t])
             /\ \A j \in 1..Len(stack'[t]) : stack'[t][j].depth < f.depth
             /\ \A i \in 2..Len(ret'.popped) :
                  /\ ret'.popped[i].depth = f.depth
                  /\ ret'.popped[i].pc = "value" => ~ret'.popped[i].err
                  /\ ret'.popped[i].err => ret'.popped[i].pc \in {"culprit", "vfail"}]_vars

\* The second MTRY of a full expression has failed after the first one gave
\* its value, and the function has returned.
C13_Witness ==
  /\ ret.op = "Return"
  /\ Len(ret.popped) >= 2
  /\ ret.popped[1].kind = "try"
  /\ ret.popped[1].err
  /\ ret.popped[1].culprit.id = Len(stack[ret.t]) + Len(ret.popped)
  /\ ret.popped[2].kind = "try"
  /\ ret.popped[2].pc = "value"

(***************************************************************************)
(* Annotation stores.  A store is told by the patches applied to it, in    *)
(* the order of their application: [key, value] for an add, [key,          *)
(* RemoveTag] for a remove-all.                                            *)
(***************************************************************************)

\* The positions of the adds for the key that no later remove-all hides.
Visible(ops, key) ==
  {i \in 1..Len(ops) :
     /\ ops[i].key = key
     /\ ops[i].value # RemoveTag
     /\ \A j \in (i + 1)..Len(ops) :
          ~(ops[j].key = key /\ ops[j].value = RemoveTag)}

\* The values of those adds, the most recently added first.
Added(ops, key) ==
  LET I == Visible(ops, key) IN
  [k \in 1..Cardinality(I) |->
     ops[CHOOSE i \in I : Cardinality({j \in I : j > i}) = k - 1].value]

\* The stores of the state: the type map of every domain with the patches
\* applied to the domain, and the type map of the builder with the patches
\* applied in the scope of the macro.
Stores ==
  {[map |-> dom[s].annotations, ops |-> hist[s]] : s \in Slots}
    \cup (IF bld = <<>> THEN {}
          ELSE {[map |-> bld[1].b.annotations, ops |-> bld[1].ops]})

\* C14: get-all(tag) returns the values added for the tag, since the last
\* remove-all of the tag if there is one, the most recently added first, and
\* get(tag) returns the first of them, the value added last for the tag.
C14_GetAllNewestFirst ==
  \A st \in Stores : \A key \in Tags :
    LET all == GetAll(key, <<st.map>>) IN
    /\ all = Added(st.ops, key)
    /\ Has(key, <<st.map>>) <=> all # <<>>
    /\ all # <<>> =>
         /\ TypeMapGet(key, <<st.map>>) = all[1]
         /\ \E i \in Visible(st.ops, key) :
              /\ st.ops[i].value = TypeMapGet(key, <<st.map>>)
              /\ \A j \in Visible(st.ops, key) : j <= i

\* A store has received two different values for one tag, only adds, with an
\* add for another tag between them.
C14_Witness ==
  \E s \in Slots : \E key \in Tags :
    /\ Len(hist[s]) = 3
    /\ \A i \in 1..3 : hist[s][i].value # RemoveTag
    /\ hist[s][1].key = key
    /\ hist[s][2].key # key
    /\ hist[s][3].key = key
    /\ hist[s][1].value # hist[s][3].value
    /\ Len(GetAll(key, <<dom[s].annotations>>)) = 2

\* C15: when the patches for a tag end with a remove-all followed by an add of
\* Z, get(tag) returns Z and get-all(tag) has the length 1, whatever was added
\* for the tag before the remove-all.
C15_RemoveAllThenAdd ==
  \A st \in Stores : \A key \in Tags :
    \A i \in 1..Len(st.ops) : \A j \in (i + 1)..Len(st.ops) :
      (/\ st.ops[i] = MakePair(key, RemoveTag)
       /\ st.ops[j].key = key
       /\ st.ops[j].value # RemoveTag
       /\ \A k \in (i + 1)..Len(st.ops) : k # j => st.ops[k].key # key)
        => /\ TypeMapGet(key, <<st.map>>) = st.ops[j].value
           /\ Len(GetAll(key, <<st.map>>)) = 1

\* A value was added for a tag, the tag was removed, and another value was
\* added for it.
C15_Witness ==
  \E s \in Slots : \E key \in Tags :
    /\ Len(hist[s]) = 3
    /\ hist[s][1].key = key /\ hist[s][1].value # RemoveTag
    /\ hist[s][2] = MakePair(key, RemoveTag)
    /\ hist[s][3].key = key /\ hist[s][3].value # RemoveTag
    /\ hist[s][3].value # hist[s][1].value
    /\ TypeMapGet(key, <<dom[s].annotations>>) = hist[s][3].value

RECURSIVE Replay(_, _)
\* The store obtained by applying the patches ops, in their order, to map.
Replay(map, ops) ==
  IF ops = <<>> THEN map
  ELSE Replay(IF Head(ops).value = RemoveTag
              THEN RemoveAll(Head(ops).key, map)
              ELSE Add(Head(ops).key, map, Head(ops).value),
              Tail(ops))

RECURSIVE Concat(_)
Concat(ss) == IF ss = <<>> THEN <<>> ELSE Head(ss) \o Concat(Tail(ss))

IsPrefix(p, q) == Len(p) <= Len(q) /\ SubSeq(q, 1, Len(p)) = p

\* C16: the store that With() merges from the store of a domain A and the
\* stores of the domains B... is the store that the patches of A followed by
\* the patches of B..., applied in that order to one empty store, give; for
\* every tag the entries of the store merged last come first.
C16_MergeIsReplay ==
  ret.op = "With" =>
    LET merged == ret.res.annotations
        opsB == Concat([i \in 1..Len(ret.extras) |-> hist[ret.extras[i]]])
        last == dom[ret.extras[Len(ret.extras)]].annotations
    IN /\ merged = Replay(EmptyTypeMap, hist[ret.d0] \o opsB)
       /\ merged = Replay(dom[ret.d0].annotations, opsB)
       /\ \A key \in Tags :
            /\ IsPrefix(GetAll(key, <<last>>), GetAll(key, <<merged>>))
            /\ Has(key, <<last>>) =>
                 TypeMapGet(key, <<merged>>) = TypeMapGet(key, <<last>>)

\* Two domains that hold different values for one tag have been merged.
C16_Witness ==
  /\ ret.op = "With"
  /\ Len(ret.extras) = 1
  /\ ret.extras[1] # ret.d0
  /\ \E key \in Tags :
       /\ Has(key, <<dom[ret.d0].annotations>>)
       /\ Has(key, <<dom[ret.extras[1]].annotations>>)
       /\ TypeMapGet(key, <<dom[ret.d0].annotations>>)
            # TypeMapGet(key, <<dom[ret.extras[1]].annotations>>)
       /\ TypeMapGet(key, <<ret.res.annotations>>)
            = TypeMapGet(key, <<dom[ret.extras[1]].annotations>>)

\* What the accessors of a policy or builder give for every key.
Lookups(c) ==
  [key \in Tags |->
     [has |-> HasAnnotation(key, c),
      get |-> IF HasAnnotation(key, c) THEN GetAnnotation(key, c) ELSE RemoveTag,
      all |-> GetAnnotations(key, c)]]

\* C17: d0.With(d1, d2) is the domain d0.With(d1).With(d2): the same policy
\* layers and builder layers in the same order, those of d0 innermost, the
\* same type map and so the same result of every annotation lookup.
C17_WithAssociative ==
  (ret.op = "With" /\ Len(ret.extras) = 2) =>
    LET d0 == dom[ret.d0]
        d1 == dom[ret.extras[1]]
        d2 == dom[ret.extras[2]]
        chained == With(With(d0, <<d1>>), <<d2>>)
    IN /\ ret.res = chained
       /\ ret.res.Policy = d0.Policy \o d1.Policy \o d2.Policy
       /\ ret.res.Builder = d0.Builder \o d1.Builder \o d2.Builder
       /\ Lookups(ret.res) = Lookups(chained)

\* With() has combined a domain with two others, of which the first differs
\* from it in its layers and in the value it holds for a tag.
C17_Witness ==
  /\ ret.op = "With"
  /\ Len(ret.extras) = 2
  /\ ret.extras[1] # ret.d0
  /\ Len(ret.res.Policy) >= 3
  /\ \E key \in Tags :
       /\ Has(key, <<dom[ret.d0].annotations>>)
       /\ Has(key, <<dom[ret.extras[1]].annotations>>)
       /\ Has(key, <<dom[ret.extras[2]].annotations>>)
       /\ TypeMapGet(key, <<dom[ret.d0].annotations>>)
            # TypeMapGet(key, <<dom[ret.extras[1]].annotations>>)

\* C18: for functions X and Y that add an annotation to their argument and
\* domains a and b, X(a).With(Y(b)) and Y(X(a.With(b))) give the same result
\* for every annotation lookup.
C18_PatchesCommuteWithWith ==
  \A x \in Slots, y \in Slots :
    \A kx \in Tags, ky \in Tags : \A vx \in Vals, vy \in Vals :
      Lookups(With(AddAnnotation(kx, dom[x], Value(vx)),
                   <<AddAnnotation(ky, dom[y], Value(vy))>>))
        = Lookups(AddAnnotation(ky,
                    AddAnnotation(kx, With(dom[x], <<dom[y]>>), Value(vx)),
                    Value(vy)))

\* C19: the builder of a macro, patched partly through its domain and partly
\* in the scope of the macro, gives for every annotation lookup (presence,
\* latest value, all values) what the builder gives when all the patches are
\* applied, in the same order, to the domain alone.
C19_PatchesInBothPlaces ==
  bld # <<>> =>
    LET all == hist[bld[1].from] \o bld[1].ops
        single == ReplaceAnnotations(dom[bld[1].from], Replay(EmptyTypeMap, all))
    IN Lookups(bld[1].b) = Lookups(GetErrorBuilder(single, bld[1].b.context))

\* The error code that the patches ops, applied in their order, and the
\* culprit call for: the override set last with ErrorCode() and not removed,
\* else the code of the culprit, else the default set last with
\* DefaultErrorCode() and not removed, else no build.
ExpectedCode(ops, culprit) ==
  LET O == Added(ops, "ErrorCodeAnnotation")
      D == Added(ops, "DefaultErrorCodeAnnotation")
  IN IF O # <<>> THEN [ok |-> TRUE, code |-> O[1].val]
     ELSE IF culprit.carries THEN [ok |-> TRUE, code |-> culprit.code]
     ELSE IF D # <<>> THEN [ok |-> TRUE, code |-> D[1].val]
     ELSE [ok |-> FALSE, code |-> 0]

\* C20: the code of the failure that the builder makes is the override O when
\* one is set, else the code C of the culprit when it carries one, else the
\* default D, and the build fails when there is none of the three.
C20_CodePrecedence ==
  ret.op = "MakeError" => ret.res = ExpectedCode(ret.ops, ret.b.context)

\* What the type-map accessors give for every key when called with maps.
Accessors(maps) ==
  [key \in Tags |->
     [has |-> Has(key, maps),
      get |-> IF Has(key, maps) THEN TypeMapGet(key, maps) ELSE RemoveTag,
      getOr |-> GetOr(key, maps, Void),
      all |-> GetAll(key, maps)]]

\* C25: Has, Get, GetOr and GetAll called with several maps give what the
\* same accessor gives on Merge of those maps in the same argument order.
C25_VariadicAsMerged ==
  /\ \A x \in Slots, y \in Slots :
       LET maps == <<dom[x].annotations, dom[y].annotations>> IN
       Accessors(maps) = Accessors(<<Merge(maps)>>)
  /\ bld # <<>> =>
       Accessors(AnnotationMaps(bld[1].b))
         = Accessors(<<Merge(AnnotationMaps(bld[1].b))>>)

(***************************************************************************)
(* The stash map: what selects an entry, and the shape of the list.        *)
(***************************************************************************)

\* C26: Get<T>(key) and Remove<T>(key) select an entry that was Put with the
\* same key and the same payload type T.
C26_KeyedByKeyAndType ==
  [][ret'.op \in {"Get", "Remove"} =>
       LET n == ret'.node
           ns == nodes[ret'.t]
       IN /\ ns[n].key = ret'.key
          /\ ns[n].val.ty = ret'.ty]_vars

\* C26 as amended: the lookup is keyed by the call-site id alone.  Get<T>(key)
\* and Remove<T>(key) select the live entry that was put last with the key,
\* whatever its payload type; it has the type T when every live entry with
\* the key has.
C26_KeyedByKey ==
  [][ret'.op \in {"Get", "Remove"} =>
       LET t == ret'.t
           n == ret'.node
           ns == nodes[t]
       IN /\ n \in Live(head[t], ns)
          /\ ns[n].key = ret'.key
          /\ n = HistGet(order[t], ret'.key)
          /\ (\A m \in Live(head[t], ns) :
                ns[m].key = ret'.key => ns[m].val.ty = ret'.ty)
               => ns[n].val.ty = ret'.ty]_vars

\* Get<T>(key) has selected an entry of another payload type, put later with
\* the same key than the entry of type T.
C26_Witness ==
  /\ ret.op = "Get"
  /\ nodes[ret.t][ret.node].val.ty # ret.ty
  /\ \E m \in Live(head[ret.t], nodes[ret.t]) :
       /\ nodes[ret.t][m].key = ret.key
       /\ nodes[ret.t][m].val.ty = ret.ty

\* C27: the Remove<Stash>(Key) run by the destructor of an MTryState removes
\* the entry that the Put of this MTryState returned, and no destructor of an
\* MTryState that put nothing removes anything, also while entries put with
\* the same key by other nesting levels are live.
C27_DtorRemovesOwnEntry ==
  IsExit =>
    \A i \in 1..Len(ret.popped) :
      /\ ret.removed[i] = ret.popped[i].stash
      /\ ret.popped[i].stash # nullptr =>
           /\ ret.popped[i].kind = "try"
           /\ nodes[ret.t][ret.popped[i].stash].key = kFree

\* A destructor has removed its entry while an entry put with the same key by
\* an outer evaluation stays live.
C27_Witness ==
  /\ IsExit
  /\ \E i \in 1..Len(ret.popped) :
       /\ ret.popped[i].stash # nullptr
       /\ ret.removed[i] = ret.popped[i].stash
       /\ \E f \in Frames(ret.t) :
            /\ f.key = ret.popped[i].key
            /\ f.stash # nullptr
            /\ f.stash # ret.popped[i].stash
            /\ nodes[ret.t][f.stash].key = f.key

\* The larger of two numbers.
Max(a, b) == IF a > b THEN a ELSE b

\* C28: on a thread whose map started empty, Capacity is the largest number
\* of values that were live at one time so far: it is 0 at the start, and
\* every step leaves it at the larger of its old value and the new Size.  So
\* Size never exceeds Capacity and Capacity never decreases.
C28_CapacityIsPeakSize ==
  [][\A t \in Threads :
       /\ Capacity(head[t], nodes[t]) = 0 <=> nodes[t] = <<>>
       /\ Capacity(head'[t], nodes'[t])
            = Max(Capacity(head[t], nodes[t]), Size(head'[t], nodes'[t]))
       /\ Size(head'[t], nodes'[t]) <= Capacity(head'[t], nodes'[t])
       /\ Capacity(head'[t], nodes'[t]) >= Capacity(head[t], nodes[t])]_vars

\* A Put has reused a node of a map that held two live values at one time
\* before and holds fewer now: Capacity stays at the earlier peak.
C28_Witness ==
  /\ ret.op = "Put"
  /\ ~ret.fresh
  /\ Capacity(head[ret.t], nodes[ret.t]) = 2
  /\ Size(head[ret.t], nodes[ret.t]) = 1

RECURSIVE Walk(_, _, _)
\* The first k nodes visited by for (Node* p = head_; p; p = p->next_).
Walk(ns, p, k) ==
  IF p = nullptr \/ k = 0 THEN <<>> ELSE <<p>> \o Walk(ns, ns[p].next, k - 1)

\* C29: the list of a thread is a finite chain from head_ that ends with a
\* null next_ and holds every node the thread has allocated exactly once, so
\* the scans of Put, Get, Size and Capacity come to an end.
C29_AcyclicChain ==
  \A t \in Threads :
    LET n == Len(nodes[t])
        w == Walk(nodes[t], head[t], n + 1)
    IN /\ Len(w) = n
       /\ SeqRange(w) = 1..n
       /\ \A i, j \in 1..Len(w) : i # j => w[i] # w[j]
       /\ n = 0 <=> head[t] = nullptr
       /\ n > 0 => nodes[t][w[n]].next = nullptr

\* Put has taken a free node from the middle of a list of three nodes and
\* relinked it at the head.
C29_Witness ==
  /\ ret.op = "Put"
  /\ ~ret.fresh
  /\ Len(nodes[ret.t]) = 3
  /\ head[ret.t] = ret.node
  /\ \E m \in 1..3 : nodes[ret.t][m].next # nullptr /\ nodes[ret.t][m].next > m

\* C30: the special case of Put for a free head node changes nothing that can
\* be observed: every Put returns the node, and leaves the head, the order of
\* the list and the keys, that the scan of the general path gives from the
\* same state, and so the same results of every later Get, Remove, Size and
\* Capacity.
C30_HeadCaseIsScan ==
  [][ret'.op = "Put" =>
       LET t == ret'.t
           r == NodePutScan(head[t], nodes[t], ret'.key)
           ns == [r.nodes EXCEPT ![r.res].val = nodes'[t][r.res].val]
       IN /\ ret'.node = r.res
          /\ head'[t] = r.head
          /\ nodes'[t] = ns
          /\ Chain(nodes'[t], head'[t]) = Chain(ns, r.head)
          /\ MapView(head'[t], nodes'[t]) = MapView(r.head, ns)]_vars

\* Put has taken the special case: it has reused the head node of a list of
\* two or more nodes that no Put has ever relinked.
C30_Witness ==
  /\ ret.op = "Put"
  /\ ~ret.fresh
  /\ Len(nodes[ret.t]) >= 2
  /\ head[ret.t] = Len(nodes[ret.t])
  /\ ret.node = head[ret.t]
  /\ \A m \in 1..Len(nodes[ret.t]) : nodes[ret.t][m].next = m - 1

(***************************************************************************)
(* Log filters.                                                            *)
(***************************************************************************)

\* The number of records of sequence recs that the filter accepted.
Accepted(recs) == Cardinality({i \in 1..Len(recs) : recs[i].ok})

\* The smaller of two numbers.
Min(a, b) == IF a < b THEN a ELSE b

\* C24: when every record of a macro location was filtered with FirstN(n) for
\* one n, the filter has accepted the first n records of the location and
\* rejected all later ones, none when n <= 0, whichever threads produced
\* them: the number of accepted records is min(max(n, 0), number of records).
C24_FirstNAcceptsFirstN ==
  \A l \in Locations : \A n \in Ns :
    (\A i \in 1..Len(log[l]) : log[l][i].n = n) =>
      /\ \A i \in 1..Len(log[l]) : log[l][i].ok <=> i <= n
      /\ Accepted(log[l]) = Min(Max(n, 0), Len(log[l]))
      /\ ret.op = "ShouldLog" /\ ret.loc = l /\ ret.n = n =>
           \E i \in 1..Len(log[l]) :
             /\ log[l][i].t = ret.t
             /\ log[l][i].ok = ret.res

\* Two threads have produced three records of one location that uses
\* FirstN(2); the first two were accepted and the call of the third, whose
\* thread waited for the mutex, has returned false.
C24_Witness ==
  /\ ret.op = "ShouldLog"
  /\ ~ret.res
  /\ ret.n = 2
  /\ Len(log[ret.loc]) = 3
  /\ \A i \in 1..3 : log[ret.loc][i].n = 2
  /\ \E i, j \in 1..3 : log[ret.loc][i].t # log[ret.loc][j].t
  /\ Accepted(log[ret.loc]) = 2

(***************************************************************************)
(* Tee sinks.                                                              *)
(***************************************************************************)

\* The values of the elements of ops at the positions I, in their order.
Pick(ops, I) ==
  [k \in 1..Cardinality(I) |->
     ops[CHOOSE i \in I : Cardinality({j \in I : j < i}) = k - 1].value]

\* The positions of the calls of Tee() among the patches ops.
TeeCalls(ops) ==
  {i \in 1..Len(ops) : ops[i].key = "TeeAnnotation" /\ ops[i].value # RemoveTag}

\* C23: when an error is detected the sinks are used in the order in which
\* they were passed to Tee(), those stored on the domain before those stored
\* in the scope of the macro: the sinks used are sinks passed, taken in the
\* order of the calls; every sink that no later NoTee() follows is among
\* them, and no sink that a later NoTee() on its own domain or builder
\* follows is.
C23_TeeOrder ==
  ret.op = "ObserveRetVal" =>
    LET ops == ret.policy \o ret.scope
        np == Len(ret.policy)
        kept == {i \in TeeCalls(ops) :
                   \A j \in (i + 1)..Len(ops) : ops[j].value # RemoveTag}
        gone == {i \in TeeCalls(ops) :
                   \E j \in (i + 1)..Len(ops) :
                     /\ ops[j].value = RemoveTag
                     /\ (i <= np) = (j <= np)}
    IN \E I \in SUBSET TeeCalls(ops) :
         /\ ret.used = Pick(ops, I)
         /\ kept \subseteq I
         /\ I \cap gone = {}

\* An error has gone to three different sinks, of which the domain stored two
\* and the scope of the macro the last.
C23_Witness ==
  /\ ret.op = "ObserveRetVal"
  /\ Len(ret.policy) = 2
  /\ Len(ret.scope) = 1
  /\ Len(ret.used) = 3
  /\ ret.used = <<ret.policy[1].value, ret.policy[2].value, ret.scope[1].value>>
  /\ ret.used[1] # ret.used[2]
  /\ ret.used[2] # ret.used[3]
  /\ ret.used[1] # ret.used[3]

(***************************************************************************)
(* C21: passing an expression through the relational decomposition never   *)
(* evaluates an operand that the standard short-circuiting of &&, || or ?: *)
(* skips: every operand that MVERIFY(e) evaluates is an operand that the   *)
(* evaluation of e outside the macro evaluates.                            *)
(***************************************************************************)
C21_NoSkippedOperandEvaluated ==
  ret.op = "MVerify" => SeqRange(ret.trace) \subseteq SeqRange(ret.std.trace)

\* MVERIFY(true || side_effect()) has evaluated its left operand only.
C21_Witness ==
  /\ ret.op = "MVerify"
  /\ ret.e = <<"bin", "||", <<"leaf", 1>>, <<"leaf", 0>>>>
  /\ ret.trace = <<<<1>>>>

(***************************************************************************)
(* C22: when the argument of MVERIFY is a relational expression classified *)
(* as an error, the error context carries a relational-expression record   *)
(* with the operator and the values of the operands as PrintOperands       *)
(* printed them exactly when PrintOperands returned true; in every other   *)
(* case the record is absent.                                              *)
(***************************************************************************)
IsRelational(e) == e[1] = "bin" /\ e[2] \in Relational

C22_RelExprIffPrinted ==
  ret.op = "MVerify" =>
    /\ ret.error = (ret.std.val = 0)
    /\ ret.error = (ret.ctx # <<>>)
    /\ ret.error =>
         ret.ctx[1].rel_expr =
           IF IsRelational(ret.e) /\ ret.print_res
           THEN <<[left |-> ToString(StdEval(ret.e[3], <<1>>).val),
                   op |-> ret.e[2],
                   right |-> ToString(StdEval(ret.e[4], <<2>>).val)]>>
           ELSE <<>>

\* MVERIFY(1 + 1 < 1) with a PrintOperands that returns true: "2", <, "1".
C22_Witness ==
  /\ ret.op = "MVerify"
  /\ ret.e = <<"bin", "<", <<"bin", "+", <<"leaf", 1>>, <<"leaf", 1>>>>,
               <<"leaf", 1>>>>
  /\ ret.print_res
  /\ ret.ctx # <<>>
  /\ ret.ctx[1].rel_expr = <<[left |-> "2", op |-> "<", right |-> "1"]>>

====
